---- MODULE Spec2Model ----
(***************************************************************************)
(* Codebase retrieval: semantic search, BM25 keyword search, score fusion  *)
(* and cross-encoder re-ranking of CodebaseSearch (retrieval/search.py).   *)
(*                                                                         *)
(* Scores are Python floats in the code; the model computes them as exact  *)
(* rationals [n, d] with d > 0 in lowest terms.  Text is a sequence of     *)
(* one-character strings.                                                  *)
(***************************************************************************)
EXTENDS Integers, Sequences, FiniteSets, TLC

(***************************************************************************)
(* Exact rational arithmetic                                               *)
(***************************************************************************)
Abs(i) == IF i < 0 THEN -i ELSE i

RECURSIVE GCD(_, _)
GCD(a, b) == IF b = 0 THEN a ELSE GCD(b, a % b)

Rat(n, d) ==
    LET s == IF d < 0 THEN -1 ELSE 1
        g == GCD(Abs(n), Abs(d))
    IN  [n |-> (s * n) \div g, d |-> (s * d) \div g]

RInt(i) == [n |-> i, d |-> 1]
Zero == RInt(0)
One == RInt(1)
Half == Rat(1, 2)

RAdd(x, y) == Rat(x.n * y.d + y.n * x.d, x.d * y.d)
RSub(x, y) == Rat(x.n * y.d - y.n * x.d, x.d * y.d)
RMul(x, y) == Rat(x.n * y.n, x.d * y.d)
RDiv(x, y) == Rat(x.n * y.d, x.d * y.n)
RLt(x, y) == x.n * y.d < y.n * x.d
RLe(x, y) == x.n * y.d <= y.n * x.d

RECURSIVE RMaxSeq(_)
RMaxSeq(s) ==
    IF Len(s) = 1 THEN s[1]
    ELSE LET m == RMaxSeq(Tail(s)) IN IF RLt(m, s[1]) THEN s[1] ELSE m

RECURSIVE RMinSeq(_)
RMinSeq(s) ==
    IF Len(s) = 1 THEN s[1]
    ELSE LET m == RMinSeq(Tail(s)) IN IF RLt(s[1], m) THEN s[1] ELSE m

(***************************************************************************)
(* Sequence helpers: Python slicing, filtering and the stable list.sort    *)
(***************************************************************************)
Min2(a, b) == IF a < b THEN a ELSE b

\* s[:k]
Take(s, k) == SubSeq(s, 1, Min2(k, Len(s)))

Range(s) == {s[i] : i \in 1..Len(s)}

\* list.sort(key = score, reverse = True): descending, and stable, so equal
\* scores keep the order they had in the list.
\* The elements are records with a rational field `score`.
RECURSIVE InsertDesc(_, _)
InsertDesc(sorted, x) ==
    IF sorted = <<>> THEN <<x>>
    ELSE IF RLt(sorted[Len(sorted)].score, x.score)
         THEN Append(InsertDesc(SubSeq(sorted, 1, Len(sorted) - 1), x),
                     sorted[Len(sorted)])
         ELSE Append(sorted, x)

RECURSIVE SortDescFrom(_, _, _)
SortDescFrom(s, i, acc) ==
    IF i > Len(s) THEN acc
    ELSE SortDescFrom(s, i + 1, InsertDesc(acc, s[i]))

\* a sort that leaves the list as it is: C10 must fail for it
SortDescNone(s) == s

SortDesc(s) == SortDescFrom(s, 1, <<>>)

\* The orders in which a set can be iterated.
RECURSIVE Perms(_)
Perms(S) ==
    IF S = {} THEN {<<>>}
    ELSE UNION {{<<x>> \o p : p \in Perms(S \ {x})} : x \in S}

(***************************************************************************)
(* Characters and the code-aware tokenizer                                 *)
(***************************************************************************)
LowerChars == <<"a","b","c","d","e","f","g","h","i","j","k","l","m",
                "n","o","p","q","r","s","t","u","v","w","x","y","z">>
UpperChars == <<"A","B","C","D","E","F","G","H","I","J","K","L","M",
                "N","O","P","Q","R","S","T","U","V","W","X","Y","Z">>
DigitChars == {"0","1","2","3","4","5","6","7","8","9"}

LowerSet == Range(LowerChars)
UpperSet == Range(UpperChars)
WordSet == LowerSet \cup UpperSet \cup DigitChars \cup {"_"}

IsLower(c) == c \in LowerSet
IsUpper(c) == c \in UpperSet
IsDigit(c) == c \in DigitChars
IsAlpha(c) == IsLower(c) \/ IsUpper(c)

\* str.lower() on one character and on a text
LowerChar(c) ==
    IF IsUpper(c) THEN LowerChars[CHOOSE i \in 1..26 : UpperChars[i] = c] ELSE c

LowerStr(s) == [i \in 1..Len(s) |-> LowerChar(s[i])]

\* `sub in s` for Python strings
Contains(sub, s) ==
    \E i \in 0..(Len(s) - Len(sub)) : SubSeq(s, i + 1, i + Len(sub)) = sub

\* end (exclusive) of the maximal run of characters of class C from i
RECURSIVE RunEnd(_, _, _)
RunEnd(s, i, C) ==
    IF i <= Len(s) /\ s[i] \in C THEN RunEnd(s, i + 1, C) ELSE i

\* re.findall(r'[a-zA-Z_][a-zA-Z0-9_]*|[0-9]+', text)
RECURSIVE FindIdentifiers(_, _)
FindIdentifiers(text, i) ==
    IF i > Len(text) THEN <<>>
    ELSE IF IsAlpha(text[i]) \/ text[i] = "_"
         THEN LET e == RunEnd(text, i, WordSet)
              IN  <<SubSeq(text, i, e - 1)>> \o FindIdentifiers(text, e)
    ELSE IF IsDigit(text[i])
         THEN LET e == RunEnd(text, i, DigitChars)
              IN  <<SubSeq(text, i, e - 1)>> \o FindIdentifiers(text, e)
    ELSE FindIdentifiers(text, i + 1)

\* an identifier left whole at its underscores: C30 must fail for it
SplitUnderscoreNone(token, i, cur) == <<token>>

\* token.split('_') without the empty parts the loop skips
RECURSIVE SplitUnderscore(_, _, _)
SplitUnderscore(token, i, cur) ==
    IF i > Len(token) THEN (IF cur = <<>> THEN <<>> ELSE <<cur>>)
    ELSE IF token[i] = "_"
         THEN (IF cur = <<>> THEN <<>> ELSE <<cur>>) \o SplitUnderscore(token, i + 1, <<>>)
         ELSE SplitUnderscore(token, i + 1, Append(cur, token[i]))

\* str.isupper(): at least one cased character and no lowercase one
IsUpperStr(part) ==
    /\ \E i \in 1..Len(part) : IsUpper(part[i])
    /\ \A i \in 1..Len(part) : ~IsLower(part[i])

\* re.findall(r'[a-z]+|[A-Z]+(?=[A-Z][a-z]|$|[0-9])|[A-Z][a-z]*|[0-9]+', part)
RECURSIVE CamelParts(_, _)
CamelParts(part, i) ==
    IF i > Len(part) THEN <<>>
    ELSE IF IsLower(part[i])
         THEN LET e == RunEnd(part, i, LowerSet)
              IN  <<SubSeq(part, i, e - 1)>> \o CamelParts(part, e)
    ELSE IF IsUpper(part[i])
         THEN LET e == RunEnd(part, i, UpperSet)
                  \* the greedy [A-Z]+ backtracks until the lookahead holds
                  ok(p) == \/ p > Len(part)
                           \/ IsDigit(part[p])
                           \/ (p < Len(part) /\ IsUpper(part[p]) /\ IsLower(part[p + 1]))
                  ends == {p \in (i + 1)..e : ok(p)}
              IN  IF ends # {}
                  THEN LET p == CHOOSE q \in ends : \A r \in ends : r <= q
                       IN  <<SubSeq(part, i, p - 1)>> \o CamelParts(part, p)
                  ELSE LET f == RunEnd(part, i + 1, LowerSet)
                       IN  <<SubSeq(part, i, f - 1)>> \o CamelParts(part, f)
    ELSE IF IsDigit(part[i])
         THEN LET e == RunEnd(part, i, DigitChars)
              IN  <<SubSeq(part, i, e - 1)>> \o CamelParts(part, e)
    ELSE CamelParts(part, i + 1)

\* a part lowercased without the camelCase split: C22 must fail for it
ExpandPartWhole(part) == <<LowerStr(part)>>

\* the body of the loop over parts_by_underscore
ExpandPart(part) ==
    IF IsUpperStr(part) THEN <<LowerStr(part)>>
    ELSE LET cp == CamelParts(part, 1) IN [k \in 1..Len(cp) |-> LowerStr(cp[k])]

RECURSIVE ExpandParts(_, _)
ExpandParts(parts, k) ==
    IF k > Len(parts) THEN <<>>
    ELSE ExpandPart(parts[k]) \o ExpandParts(parts, k + 1)

RECURSIVE ExpandTokens(_, _)
ExpandTokens(tokens, k) ==
    IF k > Len(tokens) THEN <<>>
    ELSE ExpandParts(SplitUnderscore(tokens[k], 1, <<>>), 1) \o ExpandTokens(tokens, k + 1)

_tokenize(text) == ExpandTokens(FindIdentifiers(text, 1), 1)

(***************************************************************************)
(* The vector store (ChromaDB collection) and the query texts              *)
(*                                                                         *)
(* An entry is {id, document, metadata}; the metadata is a dict, modelled  *)
(* as a record whose domain is the set of keys present.  Ids follow the    *)
(* indexer's "{file_path}:{start_line}-{end_line}", one chunk per          *)
(* (file_path, start_line).                                                *)
(***************************************************************************)
Chunk(id, doc, path, s, e, type, nm, lang) ==
    [id |-> id, document |-> doc,
     metadata |-> [file_path |-> path, start_line |-> s, end_line |-> e,
                   chunk_type |-> type, name |-> nm, language |-> lang]]

AuthPy == <<"a","u">>
ApiPy == <<"a","p">>
DbJs == <<"D","b">>

\* chunk contents: "fX k", "x_y", "y yZ", "zW"
IndexedChunks ==
    <<Chunk(1, <<"f","X"," ","k">>, AuthPy, 1, 5, "function", "fX", "python"),
      Chunk(2, <<"x","_","y">>, ApiPy, 6, 9, "function", "x_y", "python"),
      Chunk(3, <<"y"," ","y","Z">>, DbJs, 5, 8, "class", "yZ", "javascript"),
      Chunk(4, <<"z","W">>, DbJs, 1, 4, "block", "zW", "javascript")>>

\* stored entries whose metadata lacks some of the fields; contents "k k", "w"
PartialChunks ==
    <<[id |-> 5, document |-> <<"k"," ","k">>,
       metadata |-> [file_path |-> AuthPy, start_line |-> 9]],
      [id |-> 6, document |-> <<"w">>,
       metadata |-> [end_line |-> 3, language |-> "python"]]>>

\* what a later indexing run stores under the id of chunk 1 after the file
\* was edited: the same id and lines, the content "q"
RewrittenChunks ==
    <<Chunk(1, <<"q">>, AuthPy, 1, 5, "function", "q", "python")>>

ChunkTable == IndexedChunks \o PartialChunks \o RewrittenChunks

\* query texts: "yQ", "k", "?!"
QueryTexts == <<<<"y","Q">>, <<"k">>, <<"?","!">>>>

QueryIds == 1..Len(QueryTexts)

\* L2 distance between the embedding of query q and of chunk c (the embedder
\* is a deterministic function of the text, so this is a fixed table)
DistanceTable ==
    <<<<1, 1, 0, 3, 2, 0, 0>>,
      <<7, 0, 0, 1, 3, 1, 3>>,
      <<3, 7, 1, 0, 0, 2, 1>>>>

Distance(q, c) == DistanceTable[q][c]

\* dict.get(key, default)
Get(meta, key, default) == IF key \in DOMAIN meta THEN meta[key] ELSE default

\* collection.get(include=["documents", "metadatas"]): every entry, in
\* storage order (the order of the ids)
RECURSIVE CollectionGetFrom(_, _)
CollectionGetFrom(coll, i) ==
    IF i > Len(ChunkTable) THEN <<>>
    ELSE (IF i \in coll THEN <<ChunkTable[i]>> ELSE <<>>) \o CollectionGetFrom(coll, i + 1)

CollectionGet(coll) == CollectionGetFrom(coll, 1)

\* collection.query(query_embeddings, n_results, where): the n_results
\* nearest entries that satisfy `where`, nearest first (equal distances in
\* storage order); each carries its distance
CollectionQuery(coll, q, n_results, where) ==
    LET cand == {c \in coll : where = "" \/
                     Get(ChunkTable[c].metadata, "language", "") = where}
        before(a, b) == \/ Distance(q, a) < Distance(q, b)
                        \/ (Distance(q, a) = Distance(q, b) /\ a < b)
        rank(c) == Cardinality({a \in cand : before(a, c)}) + 1
        n == Min2(n_results, Cardinality(cand))
    IN  [i \in 1..n |-> LET c == CHOOSE x \in cand : rank(x) = i
                        IN  [entry |-> ChunkTable[c], distance |-> Distance(q, c)]]

(***************************************************************************)
(* SearchResult and search()                                               *)
(***************************************************************************)
\* the SearchResult fields left at a marker when the metadata lacks them:
\* C18 must fail for it
SearchResultNoDefaults(doc, meta, score, sem, kw) ==
    [content |-> doc,
     file_path |-> Get(meta, "file_path", <<"?">>),
     start_line |-> Get(meta, "start_line", -1),
     end_line |-> Get(meta, "end_line", -1),
     chunk_type |-> Get(meta, "chunk_type", "?"),
     name |-> Get(meta, "name", "?"),
     language |-> Get(meta, "language", "?"),
     score |-> score, semantic_score |-> sem, keyword_score |-> kw]

SearchResult(doc, meta, score, sem, kw) ==
    [content |-> doc,
     file_path |-> Get(meta, "file_path", <<>>),
     start_line |-> Get(meta, "start_line", 0),
     end_line |-> Get(meta, "end_line", 0),
     chunk_type |-> Get(meta, "chunk_type", "unknown"),
     name |-> Get(meta, "name", ""),
     language |-> Get(meta, "language", ""),
     score |-> score, semantic_score |-> sem, keyword_score |-> kw]

\* a file filter that lets every path through: C12 must fail for it
FileFilterIgnored(file_filter, file_path) == TRUE

\* `file_filter and file_filter.lower() not in file_path.lower()` is false
FileFilterPasses(file_filter, file_path) ==
    \/ file_filter = <<>>
    \/ Contains(LowerStr(file_filter), LowerStr(file_path))

\* the distance subtracted from 1 and floored at 0: C15 must fail for it
SimilarityLinear(distance) == IF distance >= 1 THEN Zero ELSE One

\* score = 1 / (1 + distance)
Similarity(distance) == Rat(1, 1 + distance)

\* search() keeping every hit of the store: C16 must fail for it
search_unfiltered(coll, q, top_k, min_score, file_filter, language_filter) ==
    LET hits == CollectionQuery(coll, q, top_k, language_filter)
    IN  [i \in 1..Len(hits) |->
            SearchResult(hits[i].entry.document, hits[i].entry.metadata,
                         Similarity(hits[i].distance), Similarity(hits[i].distance), Zero)]

\* the results list that search() builds
search(coll, q, top_k, min_score, file_filter, language_filter) ==
    LET hits == CollectionQuery(coll, q, top_k, language_filter)
        keep(h) == /\ ~RLt(Similarity(h.distance), min_score)
                   /\ FileFilterPasses(file_filter, Get(h.entry.metadata, "file_path", <<>>))
        kept == SelectSeq(hits, keep)
    IN  [i \in 1..Len(kept) |->
            SearchResult(kept[i].entry.document, kept[i].entry.metadata,
                         Similarity(kept[i].distance), Similarity(kept[i].distance), Zero)]

SearchResponse(query, results, total_results) ==
    [query |-> query, results |-> results, total_results |-> total_results]

\* return SearchResponse(query=query, results=..., total_results=len(...))
Response(query, results) == SearchResponse(query, results, Len(results))

(***************************************************************************)
(* The keyword index: BM25Okapi over the tokenized documents               *)
(*                                                                         *)
(* score(d) = sum over the query tokens t of idf(t) * tfw(d, t).  idf(t)   *)
(* is a logarithm; the queries of this model hold at most one term of the  *)
(* vocabulary, so idf(t) is a factor common to every score of a query and  *)
(* only its sign reaches the results (through `score <= 0`, the sort and   *)
(* the division by the batch maximum).  The model keeps that sign; tfw is  *)
(* computed exactly.                                                       *)
(***************************************************************************)
RECURSIVE Count(_, _)
Count(tokens, t) ==
    IF tokens = <<>> THEN 0
    ELSE (IF Head(tokens) = t THEN 1 ELSE 0) + Count(Tail(tokens), t)

RECURSIVE SumLen(_)
SumLen(corpus) == IF corpus = <<>> THEN 0 ELSE Len(Head(corpus)) + SumLen(Tail(corpus))

Vocabulary(corpus) == UNION {Range(corpus[i]) : i \in 1..Len(corpus)}

DocFreq(corpus, t) == Cardinality({i \in 1..Len(corpus) : t \in Range(corpus[i])})

RECURSIVE Product(_, _, _)
Product(S, corpus, upper) ==
    IF S = {} THEN 1
    ELSE LET t == CHOOSE x \in S : TRUE
             f == IF upper THEN 2 * (Len(corpus) - DocFreq(corpus, t)) + 1
                  ELSE 2 * DocFreq(corpus, t) + 1
         IN  f * Product(S \ {t}, corpus, upper)

Sign(i) == IF i > 0 THEN 1 ELSE IF i < 0 THEN -1 ELSE 0

\* sign of idf = log(N - n + 0.5) - log(n + 0.5)
RawIdfSign(corpus, t) == Sign(Len(corpus) - 2 * DocFreq(corpus, t))

\* sign of average_idf, the mean of the raw idf of every word
AverageIdfSign(corpus) ==
    Sign(Product(Vocabulary(corpus), corpus, TRUE) - Product(Vocabulary(corpus), corpus, FALSE))

\* `self.idf.get(q) or 0`, a negative idf having been replaced by
\* epsilon * average_idf
IdfSign(corpus, t) ==
    IF t \notin Vocabulary(corpus) THEN 0
    ELSE IF RawIdfSign(corpus, t) < 0 THEN AverageIdfSign(corpus)
    ELSE RawIdfSign(corpus, t)

\* q_freq * (k1 + 1) / (q_freq + k1 * (1 - b + b * doc_len / avgdl)),
\* k1 = 1.5, b = 0.75, avgdl = SumLen / N
TermWeight(corpus, i, t) ==
    LET tf == Count(corpus[i], t)
    IN  Rat(20 * tf * SumLen(corpus),
            8 * tf * SumLen(corpus) + 3 * SumLen(corpus) + 9 * Len(corpus[i]) * Len(corpus))

RECURSIVE Bm25Score(_, _, _, _)
Bm25Score(corpus, i, query_tokens, idf) ==
    IF query_tokens = <<>> THEN Zero
    ELSE RAdd(RMul(RInt(idf[Head(query_tokens)]),
                   TermWeight(corpus, i, Head(query_tokens))),
              Bm25Score(corpus, i, Tail(query_tokens), idf))

\* bm25_index.get_scores(query_tokens)
GetScores(corpus, query_tokens) ==
    LET idf == [t \in Range(query_tokens) |-> IdfSign(corpus, t)]
    IN  [i \in 1..Len(corpus) |-> Bm25Score(corpus, i, query_tokens, idf)]

\* the BM25Okapi object: the tokenized documents
BM25Okapi(docs) == [i \in 1..Len(docs) |-> _tokenize(docs[i].document)]

\* the filters applied after the cut to top_k: C26 must fail for it
bm25_results_cut_first(index, docs, query, top_k, file_filter, language_filter) ==
    LET query_tokens == _tokenize(query)
        scores == GetScores(index, query_tokens)
        all == [i \in 1..Len(docs) |->
                   [document |-> docs[i].document, meta |-> docs[i].metadata,
                    score |-> scores[i]]]
        positive(r) == RLt(Zero, r.score)
        keep(r) == /\ FileFilterPasses(file_filter, Get(r.meta, "file_path", <<>>))
                   /\ (language_filter = "" \/
                       Get(r.meta, "language", "") = language_filter)
    IN  IF query_tokens = <<>> THEN <<>>
        ELSE SelectSeq(Take(SortDesc(SelectSeq(all, positive)), top_k), keep)

\* _bm25_search over a built index: (document, metadata, score) tuples
bm25_results(index, docs, query, top_k, file_filter, language_filter) ==
    LET query_tokens == _tokenize(query)
        scores == GetScores(index, query_tokens)
        all == [i \in 1..Len(docs) |->
                   [document |-> docs[i].document, meta |-> docs[i].metadata,
                    score |-> scores[i]]]
        keep(r) == /\ RLt(Zero, r.score)
                   /\ FileFilterPasses(file_filter, Get(r.meta, "file_path", <<>>))
                   /\ (language_filter = "" \/
                       Get(r.meta, "language", "") = language_filter)
    IN  IF query_tokens = <<>> THEN <<>>
        ELSE Take(SortDesc(SelectSeq(all, keep)), top_k)

_bm25_search(available, index, docs, query, top_k, file_filter, language_filter) ==
    IF ~available \/ index = <<>> THEN <<>>
    ELSE bm25_results(index, docs, query, top_k, file_filter, language_filter)

(***************************************************************************)
(* _rerank and hybrid_search                                               *)
(***************************************************************************)
\* _rerank with the score range always 1.0: C7 must fail for it
_rerank_unit_range(available, results, top_k, raw) ==
    IF ~available \/ results = <<>> THEN Take(results, top_k)
    ELSE LET min_score == RMinSeq(raw)
             reranked_results ==
                 [i \in 1..Len(results) |->
                     [results[i] EXCEPT !.score = RSub(raw[i], min_score)]]
         IN  Take(SortDesc(reranked_results), top_k)

\* _rerank leaving the sub-scores at the SearchResult defaults: C8 must fail
\* for it
_rerank_default_subscores(available, results, top_k, raw) ==
    IF ~available \/ results = <<>> THEN Take(results, top_k)
    ELSE LET min_score == RMinSeq(raw)
             max_score == RMaxSeq(raw)
             score_range == IF RLt(min_score, max_score)
                            THEN RSub(max_score, min_score) ELSE One
             reranked_results ==
                 [i \in 1..Len(results) |->
                     [results[i] EXCEPT !.score = RDiv(RSub(raw[i], min_score), score_range),
                                        !.semantic_score = Zero, !.keyword_score = Zero]]
         IN  Take(SortDesc(reranked_results), top_k)

\* `raw` is what reranker.predict returns for the (query, content) pairs
_rerank(available, results, top_k, raw) ==
    IF ~available \/ results = <<>> THEN Take(results, top_k)
    ELSE LET min_score == RMinSeq(raw)
             max_score == RMaxSeq(raw)
             score_range == IF RLt(min_score, max_score)
                            THEN RSub(max_score, min_score) ELSE One
             reranked_results ==
                 [i \in 1..Len(results) |->
                     [results[i] EXCEPT !.score = RDiv(RSub(raw[i], min_score), score_range)]]
         IN  Take(SortDesc(reranked_results), top_k)

\* a fallback that drops the caller's min_score: C6 must fail for it
FallbackNoMinScore(coll, q, top_k, min_score, file_filter, language_filter) ==
    search(coll, q, top_k, Zero, file_filter, language_filter)

\* the fallback when rank_bm25 is missing: search() with the caller's arguments
Fallback(coll, q, top_k, min_score, file_filter, language_filter) ==
    search(coll, q, top_k, min_score, file_filter, language_filter)

\* final_results cut to rerank_top_k whenever rerank is requested, a
\* re-ranker being there or not: C9 must fail for it
FinalResultsCutAnyway(rerank, available, fused, top_k, rerank_top_k, raw) ==
    IF rerank
    THEN _rerank(available, Take(fused, rerank_top_k), top_k, raw)
    ELSE Take(fused, top_k)

\* final_results without the cut to top_k: C11 must fail for it
FinalResultsUncut(rerank, available, fused, top_k, rerank_top_k, raw) ==
    IF rerank /\ available
    THEN _rerank(available, Take(fused, rerank_top_k), rerank_top_k, raw)
    ELSE fused

\* final_results, from the sorted fused_results
FinalResults(rerank, available, fused, top_k, rerank_top_k, raw) ==
    IF rerank /\ available
    THEN _rerank(available, Take(fused, rerank_top_k), top_k, raw)
    ELSE Take(fused, top_k)

FetchK(top_k, rerank, rerank_top_k) ==
    IF rerank THEN rerank_top_k ELSE Min2(top_k * 3, 100)

ResultKey(r) == <<r.file_path, r.start_line>>
MetaKey(meta) == <<Get(meta, "file_path", <<>>), Get(meta, "start_line", 0)>>

\* a dict filled in a loop keeps, for each key, the last value assigned
LastIndex(keys, key) == CHOOSE i \in 1..Len(keys) : keys[i] = key /\
                            \A j \in (i + 1)..Len(keys) : keys[j] # key

\* the keyword scores divided by the batch minimum: C28 must fail for them
NormalizedByMin(bm25) ==
    LET min_bm25 == RMinSeq([i \in 1..Len(bm25) |-> bm25[i].score])
    IN  [i \in 1..Len(bm25) |->
            IF RLt(Zero, min_bm25) THEN RDiv(bm25[i].score, min_bm25) ELSE Zero]

\* the keyword scores as BM25 gives them: C2 must fail for them
RawBm25(bm25) == [i \in 1..Len(bm25) |-> bm25[i].score]

\* the keyword scores divided by the batch maximum
NormalizedBm25(bm25) ==
    LET max_bm25 == RMaxSeq([i \in 1..Len(bm25) |-> bm25[i].score])
    IN  [i \in 1..Len(bm25) |->
            IF RLt(Zero, max_bm25) THEN RDiv(bm25[i].score, max_bm25) ELSE Zero]

\* the weights exchanged: C1 must fail for it
CombineSwapped(alpha, sem_score, kw_score) ==
    RAdd(RMul(alpha, kw_score), RMul(RSub(One, alpha), sem_score))

\* the mean, whatever alpha is: C3 must fail for it
CombineMean(alpha, sem_score, kw_score) ==
    RMul(Half, RAdd(sem_score, kw_score))

\* combined_score = alpha * sem_score + (1 - alpha) * kw_score
Combine(alpha, sem_score, kw_score) ==
    RAdd(RMul(alpha, sem_score), RMul(RSub(One, alpha), kw_score))

\* the SearchResult built for one key of all_keys; `normalized` holds the
\* normalized score of each keyword hit
FuseKey(key, semantic, bm25, normalized, alpha) ==
    LET sem_keys == [i \in 1..Len(semantic) |-> ResultKey(semantic[i])]
        kw_keys == [i \in 1..Len(bm25) |-> MetaKey(bm25[i].meta)]
        in_sem == key \in Range(sem_keys)
        in_kw == key \in Range(kw_keys)
        result == semantic[LastIndex(sem_keys, key)]
        hit == bm25[LastIndex(kw_keys, key)]
        sem_score == IF in_sem THEN result.score ELSE Zero
        kw_score == IF in_kw THEN normalized[LastIndex(kw_keys, key)] ELSE Zero
        doc == IF in_sem THEN result.content ELSE hit.document
        meta == IF in_sem
                THEN [file_path |-> result.file_path, start_line |-> result.start_line,
                      end_line |-> result.end_line, chunk_type |-> result.chunk_type,
                      name |-> result.name, language |-> result.language]
                ELSE hit.meta
    IN  SearchResult(doc, meta, Combine(alpha, sem_score, kw_score), sem_score, kw_score)

AllKeys(semantic, bm25) ==
    {ResultKey(semantic[i]) : i \in 1..Len(semantic)} \cup
    {MetaKey(bm25[i].meta) : i \in 1..Len(bm25)}

\* the two pools fused without merging by key, a chunk found by both giving
\* two results: C27 must fail for them
FusedUnmerged(semantic, bm25, alpha, min_score) ==
    LET normalized == NormalizedBm25(bm25)
        built == {FuseKey(ResultKey(semantic[i]), semantic, <<>>, <<>>, alpha) :
                     i \in 1..Len(semantic)} \cup
                 {FuseKey(MetaKey(bm25[i].meta), <<>>, bm25, normalized, alpha) :
                     i \in 1..Len(bm25)}
    IN  {r \in built : ~RLt(r.score, min_score)}

\* fused_results without the min_score filter: C13 must fail for them
FusedUnfiltered(semantic, bm25, alpha, min_score) ==
    LET normalized == NormalizedBm25(bm25)
    IN  {FuseKey(key, semantic, bm25, normalized, alpha) : key \in AllKeys(semantic, bm25)}

\* the results appended to fused_results: one per key of all_keys whose
\* combined score is not below min_score
Fused(semantic, bm25, alpha, min_score) ==
    LET normalized == NormalizedBm25(bm25)
        built == {FuseKey(key, semantic, bm25, normalized, alpha) :
                     key \in AllKeys(semantic, bm25)}
    IN  {r \in built : ~RLt(r.score, min_score)}

\* the list left in storage order: C14 must fail for it
UnsortedByLine(s, i, acc) == s

\* get_file_context: results.sort(key = start_line), ascending and stable
RECURSIVE InsertByLine(_, _)
InsertByLine(sorted, x) ==
    IF sorted = <<>> THEN <<x>>
    ELSE IF x.start_line < sorted[Len(sorted)].start_line
         THEN Append(InsertByLine(SubSeq(sorted, 1, Len(sorted) - 1), x),
                     sorted[Len(sorted)])
         ELSE Append(sorted, x)

RECURSIVE SortByLineFrom(_, _, _)
SortByLineFrom(s, i, acc) ==
    IF i > Len(s) THEN acc
    ELSE SortByLineFrom(s, i + 1, InsertByLine(acc, s[i]))

get_file_context(coll, file_path) ==
    LET all == CollectionGet(coll)
        match(c) == "file_path" \in DOMAIN c.metadata /\ c.metadata.file_path = file_path
        found == SelectSeq(all, match)
        search_results == [i \in 1..Len(found) |->
                              SearchResult(found[i].document, found[i].metadata, One, Zero, Zero)]
    IN  SortByLineFrom(search_results, 1, <<>>)

(***************************************************************************)
(* Bounds and the inputs of the calls                                      *)
(***************************************************************************)
MaxTopK == 2
MaxRerankTopK == 2
\* the construction counters stop at MaxLoads
MaxLoads == 2

DefaultRerankTopK == 20

TopKs == 1..MaxTopK
RerankTopKs == 1..MaxRerankTopK
MinScores == {Zero, Half}
Alphas == {Zero, Half, One}
FileFilters == {<<>>, <<"u">>, <<"d">>}
LanguageFilters == {"", "python"}
\* a call filters by file, by language, or not at all
Filters == {f \in FileFilters \X LanguageFilters : f[1] = <<>> \/ f[2] = ""}
FilePaths == {AuthPy, DbJs, <<"n","o">>}
\* raw cross-encoder scores (logits): negative, zero and positive
RawScores == {RInt(-1), RInt(0), RInt(2)}

\* the collections an indexing run leaves behind
Collections == {1..n : n \in 0..Len(IndexedChunks)}

\* the collections a later indexing run can leave behind: chunks added,
\* chunks removed, chunk 1 overwritten
Reindexed == Collections \cup {{2, 3, 7}}

\* collections that hold entries with partial metadata
PartialCollections == {{5, 6}, {1, 5, 6}}

(***************************************************************************)
(* State                                                                   *)
(***************************************************************************)
VARIABLES
    persist,            \* the index on disk: "no directory", "no collection" or "indexed"
    BM25_AVAILABLE,     \* module flag: rank_bm25 could be imported
    RERANK_AVAILABLE,   \* module flag: CrossEncoder could be imported
    collection,         \* ids of the entries of the ChromaDB collection
    _embedder,          \* "None" or "SentenceTransformer"
    _reranker,          \* "None" or "CrossEncoder"
    _bm25_index,        \* <<>> (None) or the tokenized documents of the index
    _bm25_documents,    \* the entries (document, metadata) the index was built from
    loads,              \* how often each dependency has been constructed
    pc,                 \* "new", "failed", "idle", or "returned" while the caller holds a result
    call,               \* the last call and its arguments
    ret,                \* what the last call returned
    trace               \* intermediate values of the last call

\* the analytics collector (analytics/collector.py) and what it works on
VARIABLES
    settings,           \* the values of the settings the collector reads
    _storage,           \* "None" or "AnalyticsStorage"
    analytics_db,       \* the file analytics.db: "absent" or "created"
    usage_events,       \* rows of the table usage_events
    token_usage,        \* rows of the table token_usage
    context,            \* <<>> or the command of the open track_command_context
    done                \* the last collector call and what it returned

searchVars == <<persist, BM25_AVAILABLE, RERANK_AVAILABLE, collection, _embedder, _reranker,
                _bm25_index, _bm25_documents, loads, pc, call, ret, trace>>

analyticsVars == <<settings, _storage, analytics_db, usage_events, token_usage, context, done>>

vars == <<searchVars, analyticsVars>>

NoCall == [op |-> "none", query |-> 1, top_k |-> 1, min_score |-> Zero, alpha |-> Half,
           file_filter |-> <<>>, language_filter |-> "", rerank |-> FALSE,
           rerank_top_k |-> DefaultRerankTopK, file_path |-> <<>>]

\* nothing returned yet; a returned list is held in `results`
NoReturn == [results |-> <<>>]

NoTrace == [semantic |-> <<>>, bm25 |-> <<>>, fused |-> <<>>, candidates |-> <<>>,
            raw |-> <<>>, reranked |-> FALSE]

NoLoads == [embedder |-> 0, bm25 |-> 0, reranker |-> 0]

\* DEFAULT_SETTINGS, for the keys the collector reads
DefaultSettings ==
    [k \in {"analytics.enabled", "telemetry.share_feature_usage",
            "telemetry.share_error_reports"} |-> "True"]

NoDone == [op |-> "none", value |-> "None"]

\* a collector that has not been used, on a machine without analytics.db
NoAnalytics ==
    /\ settings = DefaultSettings
    /\ _storage = "None"
    /\ analytics_db = "absent"
    /\ usage_events = <<>>
    /\ token_usage = <<>>
    /\ context = <<>>
    /\ done = NoDone

\* the fields __init__ sets before it connects to the store
Fresh ==
    /\ _embedder = "None"
    /\ _reranker = "None"
    /\ _bm25_index = <<>>
    /\ _bm25_documents = <<>>
    /\ loads = NoLoads

\* a CodebaseSearch constructed on an existing index
Init ==
    /\ persist = "indexed"
    /\ BM25_AVAILABLE \in BOOLEAN
    /\ RERANK_AVAILABLE \in BOOLEAN
    /\ collection \in Collections
    /\ Fresh
    /\ NoAnalytics
    /\ pc = "idle"
    /\ call = NoCall
    /\ ret = NoReturn
    /\ trace = NoTrace

(***************************************************************************)
(* The lazily loaded dependencies                                          *)
(***************************************************************************)
\* a dependency that is loaded on every use: C19 must fail for it
AlwaysNone(field, none) == TRUE

\* `self._x is None`
IsNone(field, none) == field = none

Inc(n) == IF n < MaxLoads THEN n + 1 ELSE n

\* the embedder property, and the constructions counted
embedder == IF IsNone(_embedder, "None") THEN "SentenceTransformer" ELSE _embedder

EmbedderLoads == IF IsNone(_embedder, "None") THEN Inc(loads.embedder) ELSE loads.embedder

\* the reranker property
reranker ==
    IF IsNone(_reranker, "None") /\ RERANK_AVAILABLE THEN "CrossEncoder" ELSE _reranker

RerankerLoads ==
    IF IsNone(_reranker, "None") /\ RERANK_AVAILABLE
    THEN Inc(loads.reranker) ELSE loads.reranker

\* a keyword index rebuilt from the store at every use: C21 must fail for it
BuildsAtEveryUse == BM25_AVAILABLE /\ collection # {}

\* the bm25_index property: _build_bm25_index on first use, which leaves the
\* index None when the store holds no document
Builds == IsNone(_bm25_index, <<>>) /\ BM25_AVAILABLE /\ collection # {}

BuiltDocuments == IF Builds THEN CollectionGet(collection) ELSE _bm25_documents

BuiltIndex == IF Builds THEN BM25Okapi(CollectionGet(collection)) ELSE _bm25_index

IndexLoads == IF Builds THEN Inc(loads.bm25) ELSE loads.bm25

(***************************************************************************)
(* Operations                                                              *)
(***************************************************************************)
SearchCall(q, top_k, min_score, file_filter, language_filter) ==
    /\ pc = "idle"
    /\ pc' = "returned"
    /\ call' = [NoCall EXCEPT !.op = "search", !.query = q, !.top_k = top_k,
                    !.min_score = min_score, !.file_filter = file_filter,
                    !.language_filter = language_filter]
    /\ _embedder' = embedder
    /\ loads' = [loads EXCEPT !.embedder = EmbedderLoads]
    /\ ret' = Response(QueryTexts[q],
                       search(collection, q, top_k, min_score, file_filter, language_filter))
    /\ trace' = NoTrace
    /\ UNCHANGED analyticsVars
    /\ UNCHANGED <<persist, BM25_AVAILABLE, RERANK_AVAILABLE, collection, _reranker,
                   _bm25_index, _bm25_documents>>

Search ==
    \E q \in QueryIds, top_k \in TopKs, min_score \in MinScores, filter \in Filters :
        SearchCall(q, top_k, min_score, filter[1], filter[2])

HybridSearchCall(q, top_k, min_score, alpha, file_filter, language_filter, rerank, rerank_top_k) ==
    /\ pc = "idle"
    /\ pc' = "returned"
    /\ call' = [NoCall EXCEPT !.op = "hybrid_search", !.query = q, !.top_k = top_k,
                    !.min_score = min_score, !.alpha = alpha,
                    !.file_filter = file_filter, !.language_filter = language_filter,
                    !.rerank = rerank, !.rerank_top_k = rerank_top_k]
    /\ _embedder' = embedder
    /\ IF ~BM25_AVAILABLE
       THEN /\ ret' = Response(QueryTexts[q],
                               Fallback(collection, q, top_k, min_score,
                                        file_filter, language_filter))
            /\ trace' = NoTrace
            /\ loads' = [loads EXCEPT !.embedder = EmbedderLoads]
            /\ UNCHANGED <<_bm25_index, _bm25_documents, _reranker>>
       ELSE LET fetch_k == FetchK(top_k, rerank, rerank_top_k)
                semantic == search(collection, q, fetch_k, Zero,
                                   file_filter, language_filter)
                bm25 == _bm25_search(BM25_AVAILABLE, BuiltIndex, BuiltDocuments,
                                     QueryTexts[q], fetch_k, file_filter, language_filter)
            IN  /\ _bm25_index' = BuiltIndex
                /\ _bm25_documents' = BuiltDocuments
                \* the set all_keys is iterated in some order; the sort is stable
                /\ \E fused \in {SortDesc(order) :
                                  order \in Perms(Fused(semantic, bm25, alpha, min_score))} :
                    LET candidates == Take(fused, rerank_top_k)
                    IN  IF rerank /\ RERANK_AVAILABLE
                        THEN \E raw \in [1..Len(candidates) -> RawScores] :
                               /\ ret' = Response(QueryTexts[q],
                                            FinalResults(rerank, RERANK_AVAILABLE, fused,
                                                         top_k, rerank_top_k, raw))
                               /\ trace' = [semantic |-> semantic, bm25 |-> bm25,
                                            fused |-> fused, candidates |-> candidates,
                                            raw |-> raw, reranked |-> candidates # <<>>]
                               /\ _reranker' = reranker
                               /\ loads' = [embedder |-> EmbedderLoads, bm25 |-> IndexLoads,
                                            reranker |-> RerankerLoads]
                        ELSE /\ ret' = Response(QueryTexts[q],
                                          FinalResults(rerank, RERANK_AVAILABLE, fused,
                                                       top_k, rerank_top_k, <<>>))
                             /\ trace' = [semantic |-> semantic, bm25 |-> bm25,
                                          fused |-> fused, candidates |-> <<>>,
                                          raw |-> <<>>, reranked |-> FALSE]
                             /\ loads' = [loads EXCEPT !.embedder = EmbedderLoads,
                                                       !.bm25 = IndexLoads]
                             /\ UNCHANGED _reranker
    /\ UNCHANGED analyticsVars
    /\ UNCHANGED <<persist, BM25_AVAILABLE, RERANK_AVAILABLE, collection>>

HybridSearch ==
    \E q \in QueryIds, top_k \in TopKs, min_score \in MinScores, alpha \in Alphas,
       filter \in Filters, rerank \in BOOLEAN :
      \E rerank_top_k \in IF rerank THEN RerankTopKs ELSE {DefaultRerankTopK} :
        HybridSearchCall(q, top_k, min_score, alpha, filter[1], filter[2],
                         rerank, rerank_top_k)

\* a direct call of _bm25_search
Bm25SearchCall(q, top_k, file_filter, language_filter) ==
    /\ pc = "idle"
    /\ pc' = "returned"
    /\ call' = [NoCall EXCEPT !.op = "_bm25_search", !.query = q, !.top_k = top_k,
                    !.file_filter = file_filter, !.language_filter = language_filter]
    /\ _bm25_index' = BuiltIndex
    /\ _bm25_documents' = BuiltDocuments
    /\ loads' = [loads EXCEPT !.bm25 = IndexLoads]
    /\ ret' = [results |-> _bm25_search(BM25_AVAILABLE, BuiltIndex, BuiltDocuments,
                                        QueryTexts[q], top_k, file_filter, language_filter)]
    /\ trace' = NoTrace
    /\ UNCHANGED analyticsVars
    /\ UNCHANGED <<persist, BM25_AVAILABLE, RERANK_AVAILABLE, collection, _embedder,
                   _reranker>>

Bm25Search ==
    \E q \in QueryIds, top_k \in TopKs, filter \in Filters :
        Bm25SearchCall(q, top_k, filter[1], filter[2])

\* a direct call of _rerank on the first k results of a search (or on no
\* results)
RerankCall(q, k, top_k) ==
    LET results == IF k = 0 THEN <<>>
                   ELSE search(collection, q, k, Zero, <<>>, "")
    IN \E raw \in [1..Len(results) -> RawScores] :
        /\ pc = "idle"
        /\ pc' = "returned"
        /\ call' = [NoCall EXCEPT !.op = "_rerank", !.query = q, !.top_k = top_k]
        /\ _reranker' = reranker
        /\ loads' = [loads EXCEPT !.reranker = RerankerLoads]
        /\ ret' = [results |-> _rerank(RERANK_AVAILABLE, results, top_k,
                                        IF RERANK_AVAILABLE THEN raw ELSE <<>>)]
        /\ trace' = [NoTrace EXCEPT !.candidates = results,
                         !.raw = IF RERANK_AVAILABLE /\ results # <<>> THEN raw ELSE <<>>,
                         !.reranked = RERANK_AVAILABLE /\ results # <<>>]
        /\ UNCHANGED analyticsVars
        /\ UNCHANGED <<persist, BM25_AVAILABLE, RERANK_AVAILABLE, collection, _embedder,
                       _bm25_index, _bm25_documents>>

Rerank == \E q \in QueryIds, k \in 0..MaxTopK, top_k \in TopKs : RerankCall(q, k, top_k)

GetFileContext ==
    \E file_path \in FilePaths :
        /\ pc = "idle"
        /\ pc' = "returned"
        /\ call' = [NoCall EXCEPT !.op = "get_file_context", !.file_path = file_path]
        /\ ret' = [results |-> get_file_context(collection, file_path)]
        /\ trace' = NoTrace
        /\ UNCHANGED analyticsVars
        /\ UNCHANGED <<persist, BM25_AVAILABLE, RERANK_AVAILABLE, collection, _embedder,
                       _reranker, _bm25_index, _bm25_documents, loads>>

\* the caller takes the result; the instance is ready for the next call
Return ==
    /\ pc = "returned"
    /\ pc' = "idle"
    /\ call' = NoCall
    /\ ret' = NoReturn
    /\ trace' = NoTrace
    /\ UNCHANGED analyticsVars
    /\ UNCHANGED <<persist, BM25_AVAILABLE, RERANK_AVAILABLE, collection, _embedder,
                   _reranker, _bm25_index, _bm25_documents, loads>>

Next == Search \/ HybridSearch \/ Bm25Search \/ Rerank \/ GetFileContext \/ Return

Spec == Init /\ [][Next]_vars

(***************************************************************************)
(* A store whose entries lack metadata fields                              *)
(***************************************************************************)
InitPartial ==
    /\ persist = "indexed"
    /\ BM25_AVAILABLE \in BOOLEAN
    /\ RERANK_AVAILABLE \in BOOLEAN
    /\ collection \in PartialCollections
    /\ Fresh
    /\ NoAnalytics
    /\ pc = "idle"
    /\ call = NoCall
    /\ ret = NoReturn
    /\ trace = NoTrace

SpecPartial == InitPartial /\ [][Next]_vars

(***************************************************************************)
(* The life of a search session: construction on the index the indexer     *)
(* leaves on disk, calls, re-indexing between the calls                    *)
(***************************************************************************)
Persists == {"no directory", "no collection", "indexed"}

\* the calls of a session use one top_k and one rerank_top_k
SessionK == 1

\* raise FileNotFoundError(message): the message in its parts
FileNotFoundError(message) == [error |-> "FileNotFoundError", message |-> message]

IndexNotFound ==
    FileNotFoundError(<<"Index not found at ", "persist_path", ". ",
                        "Run 'ai-assist index' first.">>)

CollectionNotFound ==
    FileNotFoundError(<<"Collection '", "collection_name", "' not found. ",
                        "Run 'ai-assist index' first.">>)

InitSession ==
    /\ persist \in Persists
    /\ BM25_AVAILABLE \in BOOLEAN
    /\ RERANK_AVAILABLE \in BOOLEAN
    /\ collection \in IF persist = "indexed" THEN Collections ELSE {{}}
    /\ Fresh
    /\ NoAnalytics
    /\ pc = "new"
    /\ call = NoCall
    /\ ret = NoReturn
    /\ trace = NoTrace

\* a constructor that does not look at the index on disk: C17 must fail
\* for it
ConstructUnchecked ==
    /\ pc = "new"
    /\ pc' = "idle"
    /\ call' = [NoCall EXCEPT !.op = "__init__"]
    /\ UNCHANGED analyticsVars
    /\ UNCHANGED <<persist, BM25_AVAILABLE, RERANK_AVAILABLE, collection, _embedder,
                   _reranker, _bm25_index, _bm25_documents, loads, ret, trace>>

\* a constructor that loads the embedder at once: C20 must fail for it
ConstructEager ==
    /\ pc = "new"
    /\ _embedder' = "SentenceTransformer"
    /\ _reranker' = "None"
    /\ _bm25_index' = <<>>
    /\ _bm25_documents' = <<>>
    /\ loads' = [NoLoads EXCEPT !.embedder = 1]
    /\ call' = [NoCall EXCEPT !.op = "__init__"]
    /\ IF persist = "no directory"
       THEN pc' = "failed" /\ ret' = IndexNotFound
       ELSE IF persist = "no collection"
       THEN pc' = "failed" /\ ret' = CollectionNotFound
       ELSE pc' = "idle" /\ ret' = NoReturn
    /\ UNCHANGED analyticsVars
    /\ UNCHANGED <<persist, BM25_AVAILABLE, RERANK_AVAILABLE, collection, trace>>

\* CodebaseSearch(config, root_path)
Construct ==
    /\ pc = "new"
    /\ _embedder' = "None"
    /\ _reranker' = "None"
    /\ _bm25_index' = <<>>
    /\ _bm25_documents' = <<>>
    /\ loads' = NoLoads
    /\ call' = [NoCall EXCEPT !.op = "__init__"]
    /\ IF persist = "no directory"
       THEN pc' = "failed" /\ ret' = IndexNotFound
       ELSE IF persist = "no collection"
       THEN pc' = "failed" /\ ret' = CollectionNotFound
       ELSE pc' = "idle" /\ ret' = NoReturn
    /\ UNCHANGED analyticsVars
    /\ UNCHANGED <<persist, BM25_AVAILABLE, RERANK_AVAILABLE, collection, trace>>

\* the caller drops the instance, or the exception, and may construct again
Discard ==
    /\ pc \in {"failed", "idle"}
    /\ pc' = "new"
    /\ call' = NoCall
    /\ ret' = NoReturn
    /\ _embedder' = "None"
    /\ _reranker' = "None"
    /\ _bm25_index' = <<>>
    /\ _bm25_documents' = <<>>
    /\ loads' = NoLoads
    /\ UNCHANGED analyticsVars
    /\ UNCHANGED <<persist, BM25_AVAILABLE, RERANK_AVAILABLE, collection, trace>>

\* an indexing run, between two calls: it creates the directory and the
\* collection and leaves some chunks in it
RunIndexer ==
    /\ pc \in {"new", "failed", "idle"}
    /\ persist' = "indexed"
    /\ \E stored \in Reindexed : collection' = stored /\ (persist = "indexed" => stored # collection)
    /\ UNCHANGED analyticsVars
    /\ UNCHANGED <<BM25_AVAILABLE, RERANK_AVAILABLE, _embedder, _reranker, _bm25_index,
                   _bm25_documents, loads, pc, call, ret, trace>>

SessionSearch == \E q \in QueryIds : SearchCall(q, SessionK, Zero, <<>>, "")

SessionHybridSearch ==
    \E q \in QueryIds, rerank \in BOOLEAN :
        HybridSearchCall(q, SessionK, Zero, Half, <<>>, "", rerank,
                         IF rerank THEN SessionK ELSE DefaultRerankTopK)

SessionBm25Search == \E q \in QueryIds : Bm25SearchCall(q, SessionK, <<>>, "")

SessionRerank == \E q \in QueryIds, k \in {0, SessionK} : RerankCall(q, k, SessionK)

NextSession ==
    \/ Construct \/ Discard \/ RunIndexer
    \/ SessionSearch \/ SessionHybridSearch \/ SessionBm25Search \/ SessionRerank
    \/ Return

SpecSession == InitSession /\ [][NextSession]_vars

(***************************************************************************)
(* Calls of _tokenize on texts                                             *)
(***************************************************************************)
\* "processUserRequest"
ProcessUserRequest ==
    <<"p", "r", "o", "c", "e", "s", "s", "U", "s", "e", "r", "R", "e", "q", "u", "e", "s", "t">>

\* "process_snake_case"
ProcessSnakeCase ==
    <<"p", "r", "o", "c", "e", "s", "s", "_", "s", "n", "a", "k", "e", "_", "c", "a", "s", "e">>

\* "handleAuthenticationError AUTH_001"
HandleAuthenticationError ==
    <<"h", "a", "n", "d", "l", "e", "A", "u", "t", "h", "e", "n", "t", "i", "c", "a", "t", "i", "o", "n", "E", "r", "r", "o", "r", " ", "A", "U", "T", "H", "_", "0", "0", "1">>

ExampleTexts == {ProcessUserRequest, ProcessSnakeCase, HandleAuthenticationError}

\* every text of at most MaxTextLen characters over lowercase and uppercase
\* letters, a digit, the underscore and two characters that are neither
MaxTextLen == 4

Alphabet == {"a", "b", "C", "D", "1", "_", " ", "."}

BoundedTexts == UNION {[1..n -> Alphabet] : n \in 0..MaxTextLen}

Texts == ExampleTexts \cup BoundedTexts

InitTokenize ==
    /\ persist = "indexed"
    /\ BM25_AVAILABLE = TRUE
    /\ RERANK_AVAILABLE = TRUE
    /\ collection = {}
    /\ Fresh
    /\ NoAnalytics
    /\ pc = "idle"
    /\ call = NoCall
    /\ ret = NoReturn
    /\ trace = NoTrace

TokenizeCall(text) ==
    /\ pc = "idle"
    /\ pc' = "returned"
    /\ call' = [op |-> "_tokenize", text |-> text]
    /\ ret' = [results |-> _tokenize(text)]
    /\ trace' = NoTrace
    /\ UNCHANGED analyticsVars
    /\ UNCHANGED <<persist, BM25_AVAILABLE, RERANK_AVAILABLE, collection, _embedder,
                   _reranker, _bm25_index, _bm25_documents, loads>>

Tokenize == \E text \in Texts : TokenizeCall(text)

NextTokenize == Tokenize \/ Return

SpecTokenize == InitTokenize /\ [][NextTokenize]_vars

(***************************************************************************)
(* The analytics collector                                                 *)
(*                                                                         *)
(* A setting holds "True", "False" or "None" (no value).  A row of         *)
(* usage_events is (event_type, event_name, success); a row of token_usage *)
(* is the provider/model of the call.  An insert can raise (the database   *)
(* is locked, the disk is full); the collector swallows the exception.     *)
(***************************************************************************)
MaxEvents == 2

SettingKeys == DOMAIN DefaultSettings
SettingValues == {"True", "False", "None"}

Commands == {"chat"}
Features == {"search"}
ErrorTypes == {"LLMError"}
Models == {"ollama/m"}

\* SettingsManager.get(key, default)
SettingsGet(key, default) == IF settings[key] = "None" THEN default ELSE settings[key]

\* a collector that takes analytics for enabled whatever the setting is:
\* C25 must fail for it
AlwaysEnabled == TRUE

\* AnalyticsCollector.is_enabled(): bool(settings.get("analytics.enabled", True))
is_enabled == SettingsGet("analytics.enabled", "True") = "True"

Event(event_type, event_name, success) ==
    [event_type |-> event_type, event_name |-> event_name, success |-> success]

\* the storage property creates the AnalyticsStorage, and with it the
\* database file and its tables, at the first access
StorageAccessed ==
    /\ _storage' = "AnalyticsStorage"
    /\ analytics_db' = "created"

\* storage.insert_event(...) inside try/except: the row is added, or the
\* insert raises and nothing is added
InsertEvents(events) ==
    /\ StorageAccessed
    /\ \E ok \in BOOLEAN : usage_events' = IF ok THEN usage_events \o events ELSE usage_events

Untouched == UNCHANGED <<_storage, analytics_db, usage_events, token_usage>>

\* room for n more rows of usage_events
Room(n) == Len(usage_events) + n <= MaxEvents

TrackCommand ==
    \E command \in Commands, success \in BOOLEAN :
        /\ Room(1)
        /\ done' = [op |-> "track_command", value |-> "None"]
        /\ IF ~is_enabled THEN Untouched
           ELSE InsertEvents(<<Event("command", command, success)>>) /\ UNCHANGED token_usage
        /\ UNCHANGED <<settings, context>>
        /\ UNCHANGED searchVars

TrackLlmCall ==
    \E model \in Models :
        /\ Room(1) /\ Len(token_usage) < MaxEvents
        /\ done' = [op |-> "track_llm_call", value |-> "None"]
        /\ IF ~is_enabled THEN Untouched
           ELSE /\ StorageAccessed
                \* insert_token_usage, then insert_event; the first that
                \* raises ends the call
                /\ \/ UNCHANGED <<token_usage, usage_events>>
                   \/ /\ token_usage' = Append(token_usage, model)
                      /\ \/ UNCHANGED usage_events
                         \/ usage_events' = Append(usage_events, Event("llm_call", model, TRUE))
        /\ UNCHANGED <<settings, context>>
        /\ UNCHANGED searchVars

TrackFeature ==
    \E feature \in Features :
        /\ Room(1)
        /\ done' = [op |-> "track_feature", value |-> "None"]
        /\ IF ~is_enabled \/ SettingsGet("telemetry.share_feature_usage", "True") = "False"
           THEN Untouched
           ELSE InsertEvents(<<Event("feature", feature, TRUE)>>) /\ UNCHANGED token_usage
        /\ UNCHANGED <<settings, context>>
        /\ UNCHANGED searchVars

\* what track_error does to the storage
ErrorTracked(error_type) ==
    IF ~is_enabled \/ SettingsGet("telemetry.share_error_reports", "True") = "False"
    THEN <<>>
    ELSE <<Event("error", error_type, FALSE)>>

TrackError ==
    \E error_type \in ErrorTypes :
        /\ Room(1)
        /\ done' = [op |-> "track_error", value |-> "None"]
        /\ IF ErrorTracked(error_type) = <<>> THEN Untouched
           ELSE InsertEvents(ErrorTracked(error_type)) /\ UNCHANGED token_usage
        /\ UNCHANGED <<settings, context>>
        /\ UNCHANGED searchVars

\* the module function track_event, on the global collector
TrackEvent ==
    \E event_type \in {"command", "feature"}, name \in Commands, success \in BOOLEAN :
        /\ Room(1)
        /\ done' = [op |-> "track_event", value |-> "None"]
        /\ IF ~is_enabled THEN Untouched
           ELSE InsertEvents(<<Event(event_type, name, success)>>) /\ UNCHANGED token_usage
        /\ UNCHANGED <<settings, context>>
        /\ UNCHANGED searchVars

\* `with collector.track_command_context(command):` is entered
EnterCommandContext ==
    \E command \in Commands :
        /\ context = <<>>
        /\ context' = <<command>>
        /\ done' = [op |-> "enter track_command_context", value |-> "None"]
        /\ Untouched
        /\ UNCHANGED settings
        /\ UNCHANGED searchVars

\* the body of the `with` ends, normally or with an exception e: the
\* context manager calls track_error(type(e)) and then
\* track_command(command, success)
ExitCommandContext ==
    \E raised \in BOOLEAN, error_type \in ErrorTypes :
        LET errors == IF raised THEN ErrorTracked(error_type) ELSE <<>>
            commands == IF is_enabled THEN <<Event("command", context[1], ~raised)>> ELSE <<>>
        IN  /\ context # <<>>
            /\ Room(2)
            /\ context' = <<>>
            /\ done' = [op |-> "exit track_command_context",
                        value |-> IF raised THEN "raised" ELSE "None"]
            /\ IF errors \o commands = <<>> THEN Untouched
               ELSE /\ StorageAccessed
                    \* each of the two inserts is added or raises
                    /\ \E error_ok, command_ok \in BOOLEAN :
                          usage_events' = usage_events
                                          \o (IF error_ok THEN errors ELSE <<>>)
                                          \o (IF command_ok THEN commands ELSE <<>>)
                    /\ UNCHANGED token_usage
            /\ UNCHANGED settings
            /\ UNCHANGED searchVars

\* what the read methods return while analytics is disabled
DisabledAnswer(op) ==
    CASE op = "get_usage_today" -> [commands_today |-> 0, llm_calls_today |-> 0]
      [] op = "get_daily_stats" -> <<>>
      [] op = "get_summary" -> [analytics_enabled |-> FALSE]

\* storage.get_usage_today(), get_daily_stats(), get_summary() over the rows
StorageAnswer(op) ==
    CASE op = "get_usage_today" ->
             [commands_today |-> Len(usage_events),
              llm_calls_today |-> Len(SelectSeq(usage_events,
                                                LAMBDA e : e.event_type = "llm_call"))]
      [] op = "get_daily_stats" -> <<>>
      [] op = "get_summary" -> [analytics_enabled |-> TRUE, total_events |-> Len(usage_events)]

\* get_usage_today, get_daily_stats, get_summary
ReadAnalytics ==
    \E op \in {"get_usage_today", "get_daily_stats", "get_summary"} :
        /\ IF ~is_enabled
           THEN /\ done' = [op |-> op, value |-> DisabledAnswer(op)]
                /\ Untouched
           ELSE /\ done' = [op |-> op, value |-> StorageAnswer(op)]
                /\ StorageAccessed
                /\ UNCHANGED <<usage_events, token_usage>>
        /\ UNCHANGED <<settings, context>>
        /\ UNCHANGED searchVars

\* SettingsManager.set(key, value), by the user or by update_consent
SetSetting ==
    \E key \in SettingKeys, value \in SettingValues :
        /\ settings[key] # value
        /\ settings' = [settings EXCEPT ![key] = value]
        /\ done' = [op |-> "set", value |-> "None"]
        /\ Untouched
        /\ UNCHANGED context
        /\ UNCHANGED searchVars

InitAnalytics ==
    /\ persist = "indexed"
    /\ BM25_AVAILABLE = TRUE
    /\ RERANK_AVAILABLE = TRUE
    /\ collection = {}
    /\ Fresh
    /\ pc = "idle"
    /\ call = NoCall
    /\ ret = NoReturn
    /\ trace = NoTrace
    /\ settings \in [SettingKeys -> SettingValues]
    /\ _storage = "None"
    /\ analytics_db = "absent"
    /\ usage_events = <<>>
    /\ token_usage = <<>>
    /\ context = <<>>
    /\ done = NoDone

NextAnalytics ==
    \/ TrackCommand \/ TrackLlmCall \/ TrackFeature \/ TrackError \/ TrackEvent
    \/ EnterCommandContext \/ ExitCommandContext
    \/ ReadAnalytics \/ SetSetting

SpecAnalytics == InitAnalytics /\ [][NextAnalytics]_vars

(***************************************************************************)
(* Properties                                                              *)
(***************************************************************************)
Returned(op) == pc = "returned" /\ call.op = op

Results == ret.results

\* the call took the fused path of hybrid_search
FusedCall == Returned("hybrid_search") /\ BM25_AVAILABLE

KeysOf(seq) == {ResultKey(seq[i]) : i \in 1..Len(seq)}

\* the score the semantic candidate pool holds for the chunk of r, 0 if none
PoolScore(r) ==
    IF ResultKey(r) \in KeysOf(trace.semantic)
    THEN (CHOOSE x \in Range(trace.semantic) : ResultKey(x) = ResultKey(r)).score
    ELSE Zero

\* the raw BM25 score of the chunk of r over the largest raw score of the
\* keyword hits, 0 if the chunk is not among the hits
KeywordShare(r) ==
    LET hits == {h \in Range(trace.bm25) : MetaKey(h.meta) = ResultKey(r)}
        top == CHOOSE h \in Range(trace.bm25) : \A g \in Range(trace.bm25) : RLe(g.score, h.score)
    IN  IF hits = {} THEN Zero
        ELSE RDiv((CHOOSE h \in hits : TRUE).score, top.score)

\* alpha * sem + (1 - alpha) * kw
Weighted(alpha, sem, kw) ==
    Rat(alpha.n * sem.n * kw.d + (alpha.d - alpha.n) * kw.n * sem.d,
        alpha.d * sem.d * kw.d)

\* C1: without re-ranking, every result of a fused hybrid_search has
\* score = alpha * semantic_score + (1 - alpha) * keyword_score, where
\* semantic_score is the chunk's score in the semantic pool (0 if absent) and
\* keyword_score its BM25 score over the batch maximum (0 if no keyword hit).
C1_FusionFormula ==
    (FusedCall /\ ~call.rerank) =>
        \A r \in Range(Results) :
            /\ r.semantic_score = PoolScore(r)
            /\ r.keyword_score = KeywordShare(r)
            /\ r.score = Weighted(call.alpha, r.semantic_score, r.keyword_score)

C1_Witness ==
    /\ FusedCall /\ ~call.rerank /\ call.alpha = Half
    /\ \E r \in Range(Results) : RLt(Zero, r.semantic_score) /\ RLt(Zero, r.keyword_score)
    /\ \E r \in Range(Results) : RLt(Zero, r.semantic_score) /\ r.keyword_score = Zero

InUnit(x) == RLe(Zero, x) /\ RLe(x, One)

\* C2: every SearchResult returned by search, hybrid_search and
\* get_file_context has score, semantic_score and keyword_score in [0, 1].
C2_ScoresInUnitInterval ==
    (Returned("search") \/ Returned("hybrid_search") \/ Returned("get_file_context")) =>
        \A r \in Range(Results) :
            InUnit(r.score) /\ InUnit(r.semantic_score) /\ InUnit(r.keyword_score)

C2_Witness ==
    /\ FusedCall /\ call.rerank /\ trace.reranked
    /\ \E h \in Range(trace.bm25) : RLt(One, h.score)
    /\ \E i \in 1..Len(trace.raw) : RLt(trace.raw[i], Zero)
    /\ \E r \in Range(Results) : r.keyword_score = One
    /\ \E r \in Range(Results) : r.score = Zero

\* C3: with alpha = 1.0 and re-ranking off, every result of hybrid_search
\* has score = semantic_score, also a result found only by the keyword index.
C3_AlphaOneScoreIsSemantic ==
    (Returned("hybrid_search") /\ call.alpha = One /\ ~call.rerank) =>
        \A r \in Range(Results) : r.score = r.semantic_score

C3_Witness ==
    /\ FusedCall /\ call.alpha = One /\ ~call.rerank
    /\ \E r \in Range(Results) :
          /\ ResultKey(r) \notin KeysOf(trace.semantic)
          /\ RLt(Zero, r.keyword_score)
          /\ r.score = Zero

\* the chunk and score of each result, in order
ChunkScores(results) ==
    [i \in 1..Len(results) |-> [key |-> ResultKey(results[i]), content |-> results[i].content,
                                score |-> results[i].score]]

SearchOfCall ==
    search(collection, call.query, call.top_k, call.min_score,
           call.file_filter, call.language_filter)

SemanticOnlyCall ==
    FusedCall /\ call.alpha = One /\ call.min_score = Zero /\ ~call.rerank

\* C4: with alpha = 1.0, min_score = 0 and re-ranking off,
\* hybrid_search returns the same chunks with the same scores in the same
\* order as search() with the same arguments.
C4_SameAsSearch ==
    SemanticOnlyCall => ChunkScores(Results) = ChunkScores(SearchOfCall)

\* the query text is an identifier of the content
OccursIn(q, content) == QueryTexts[q] \in Range(FindIdentifiers(content, 1))

\* C5: hybrid_search(alpha = 0.0, query = q) with q an identifier of some
\* stored chunk returns a chunk holding q, with keyword_score > 0.
C5_IdentifierFound ==
    (/\ FusedCall /\ call.alpha = Zero /\ ~call.rerank
     /\ call.file_filter = <<>> /\ call.language_filter = ""
     /\ \E c \in collection : OccursIn(call.query, ChunkTable[c].document))
    => \E r \in Range(Results) :
          OccursIn(call.query, r.content) /\ RLt(Zero, r.keyword_score)

\* C6: when the keyword index is unavailable, hybrid_search returns exactly
\* what search() returns for the same query, top_k, min_score, file_filter
\* and language_filter, whatever alpha, rerank and rerank_top_k are.
C6_DelegatesToSearch ==
    (Returned("hybrid_search") /\ ~BM25_AVAILABLE) =>
        /\ ret = Response(QueryTexts[call.query], SearchOfCall)
        /\ _bm25_index = <<>>

C6_Witness ==
    /\ Returned("hybrid_search") /\ ~BM25_AVAILABLE
    /\ call.rerank /\ call.alpha = Zero /\ call.min_score = Half
    /\ call.file_filter # <<>>
    /\ Results # <<>>
    /\ Len(Results) < Len(search(collection, call.query, call.top_k, Zero,
                                 <<>>, call.language_filter))

\* re-ranking was applied to a non-empty batch (trace.candidates, with the
\* raw re-ranker scores trace.raw)
Reranked == pc = "returned" /\ trace.reranked

RawOf(r) ==
    trace.raw[CHOOSE i \in 1..Len(trace.candidates) :
                  ResultKey(trace.candidates[i]) = ResultKey(r)]

LowestRaw == CHOOSE x \in Range(trace.raw) : \A y \in Range(trace.raw) : RLe(x, y)
HighestRaw == CHOOSE x \in Range(trace.raw) : \A y \in Range(trace.raw) : RLe(y, x)

\* C7: after re-ranking a non-empty batch each score is
\* (raw - min) / (max - min) over the raw scores of the batch, in [0, 1];
\* when all raw scores are equal every score is 0.
C7_MinMaxNormalized ==
    Reranked =>
        \A r \in Range(Results) :
            /\ InUnit(r.score)
            /\ r.score = IF LowestRaw = HighestRaw THEN Zero
                         ELSE RDiv(RSub(RawOf(r), LowestRaw), RSub(HighestRaw, LowestRaw))

C7_Witness ==
    /\ Reranked
    /\ Len(Results) = 2
    /\ RSub(HighestRaw, LowestRaw) = RInt(3)
    /\ Results[1].score = One /\ Results[2].score = Zero

\* C8: every result of _rerank, and of hybrid_search when it re-ranks, is
\* one of the top rerank_top_k fused candidates, all fields but score equal.
C8_RerankKeepsFields ==
    /\ Reranked =>
          \A r \in Range(Results) :
              \E c \in Range(trace.candidates) : [r EXCEPT !.score = c.score] = c
    /\ (FusedCall /\ call.rerank /\ RERANK_AVAILABLE) =>
          \A r \in Range(Results) :
              \E i \in 1..Min2(call.rerank_top_k, Len(trace.fused)) :
                  [r EXCEPT !.score = trace.fused[i].score] = trace.fused[i]

C8_Witness ==
    /\ FusedCall /\ Reranked
    /\ Len(trace.fused) > call.rerank_top_k
    /\ Len(Results) = 2
    /\ [Results[1] EXCEPT !.score = trace.fused[2].score] = trace.fused[2]
    /\ Results[1].score # trace.fused[2].score
    /\ RLt(Zero, Results[1].keyword_score)

Descending(results) ==
    \A i \in 1..(Len(results) - 1) : RLe(results[i + 1].score, results[i].score)

\* C9: when rerank is requested and no re-ranker is available, or there are
\* no candidates, hybrid_search returns the fused list, in fused-score
\* order, truncated to top_k, each score the combined score; and _rerank of
\* an empty list returns the empty list.
C9_RerankSkipped ==
    /\ (FusedCall /\ call.rerank /\ (~RERANK_AVAILABLE \/ trace.fused = <<>>)) =>
          /\ Results = Take(trace.fused, call.top_k)
          /\ Descending(Results)
          /\ \A r \in Range(Results) :
                r.score = Weighted(call.alpha, r.semantic_score, r.keyword_score)
    /\ (Returned("_rerank") /\ trace.candidates = <<>>) => Results = <<>>

C9_Witness ==
    /\ FusedCall /\ call.rerank /\ ~RERANK_AVAILABLE
    /\ call.rerank_top_k < call.top_k
    /\ Len(Results) = call.top_k
    /\ _reranker = "None"

\* C10: the results of search and of hybrid_search are in descending order
\* of score.
C10_ScoreDescending ==
    (Returned("search") \/ Returned("hybrid_search")) => Descending(Results)

C10_Witness ==
    /\ FusedCall /\ ~call.rerank
    /\ Len(Results) = 2
    /\ RLt(Results[2].score, Results[1].score)
    /\ RLt(Results[1].semantic_score, Results[2].semantic_score)

\* C11: search and hybrid_search return at most top_k results, at most
\* min(top_k, rerank_top_k) when hybrid_search re-ranks, and total_results
\* is the number of results of the response.
C11_AtMostTopK ==
    (Returned("search") \/ Returned("hybrid_search")) =>
        /\ Len(Results) <= call.top_k
        /\ (FusedCall /\ call.rerank /\ RERANK_AVAILABLE) =>
               Len(Results) <= Min2(call.top_k, call.rerank_top_k)
        /\ ret.total_results = Len(ret.results)

C11_Witness ==
    /\ FusedCall /\ call.rerank /\ RERANK_AVAILABLE
    /\ call.rerank_top_k < call.top_k
    /\ Len(trace.fused) > call.rerank_top_k
    /\ Len(Results) = call.rerank_top_k
    /\ ret.total_results = call.rerank_top_k

Filtered == (Returned("search") \/ Returned("hybrid_search")) /\ call.file_filter # <<>>

\* C12 as stated: every result of search and of hybrid_search with
\* file_filter = f has a file_path that contains f as a substring, as
\* `f in result.file_path` tests it.
C12_FileFilterContained ==
    Filtered => \A r \in Range(Results) : Contains(call.file_filter, r.file_path)

\* C12: every result of search and of hybrid_search with file_filter = f has
\* a file_path that contains f when the case of the letters is ignored, the
\* result coming from the semantic pool or from the keyword index.
C12_FileFilterContainedIgnoringCase ==
    Filtered => \A r \in Range(Results) :
                    Contains(LowerStr(call.file_filter), LowerStr(r.file_path))

C12_Witness ==
    /\ FusedCall /\ call.file_filter = <<"d">>
    /\ \E r \in Range(Results) :
          /\ RLt(Zero, r.keyword_score)
          /\ r.file_path = DbJs
          /\ ~Contains(call.file_filter, r.file_path)

\* hybrid_search re-ranked its candidates
RerankApplied == FusedCall /\ call.rerank /\ RERANK_AVAILABLE

\* C13: every result of a fused hybrid_search, re-ranked or not, has
\* alpha * semantic_score + (1 - alpha) * keyword_score >= min_score, and
\* score >= min_score when it was not re-ranked; no result of search (also
\* when hybrid_search delegates to it) has score < min_score.
C13_MinScoreFilter ==
    /\ FusedCall =>
          \A r \in Range(Results) :
              /\ RLe(call.min_score, Weighted(call.alpha, r.semantic_score, r.keyword_score))
              /\ ~RerankApplied => RLe(call.min_score, r.score)
    /\ (Returned("search") \/ (Returned("hybrid_search") /\ ~BM25_AVAILABLE)) =>
          \A r \in Range(Results) : RLe(call.min_score, r.score)

C13_Witness ==
    /\ RerankApplied /\ call.min_score = Half
    /\ Len(trace.fused) <
          Cardinality(Fused(trace.semantic, trace.bm25, call.alpha, Zero))
    /\ \E r \in Range(Results) : RLt(r.score, call.min_score)

\* the stored chunks of a file
StoredOf(file_path) ==
    {c \in collection : Get(ChunkTable[c].metadata, "file_path", <<>>) = file_path}

\* C14: get_file_context(f) returns the stored chunks whose file_path is f,
\* each once and no other, with score 1.0 and the stored content, in
\* ascending order of start_line.
C14_FileContext ==
    Returned("get_file_context") =>
        /\ Len(Results) = Cardinality(StoredOf(call.file_path))
        /\ {<<r.content, r.file_path, r.start_line, r.end_line>> : r \in Range(Results)} =
           {<<ChunkTable[c].document, call.file_path, ChunkTable[c].metadata.start_line,
              ChunkTable[c].metadata.end_line>> : c \in StoredOf(call.file_path)}
        /\ \A r \in Range(Results) : r.score = One
        /\ \A i \in 1..(Len(Results) - 1) : Results[i].start_line <= Results[i + 1].start_line

C14_Witness ==
    /\ Returned("get_file_context") /\ call.file_path = DbJs
    /\ Cardinality(collection \ StoredOf(call.file_path)) = 2
    /\ Len(Results) = 2
    /\ Results[1].content = ChunkTable[4].document
    /\ Results[2].content = ChunkTable[3].document

\* result r was built from the stored chunk c
BuiltFrom(r, c) ==
    /\ ChunkTable[c].document = r.content
    /\ MetaKey(ChunkTable[c].metadata) = ResultKey(r)

\* the stored chunk a result was built from
ChunkOf(r) == CHOOSE c \in collection : BuiltFrom(r, c)

\* C15: every result of search() has score * (1 + distance) = 1 for the
\* store's distance between the query and its chunk, semantic_score = score
\* and keyword_score = 0.
C15_ScoreFromDistance ==
    Returned("search") =>
        \A r \in Range(Results) :
            /\ \E c \in collection : BuiltFrom(r, c)
            /\ RMul(r.score, RInt(1 + Distance(call.query, ChunkOf(r)))) = One
            /\ r.semantic_score = r.score
            /\ r.keyword_score = Zero

C15_Witness ==
    /\ Returned("search")
    /\ Len(Results) = 2
    /\ Distance(call.query, ChunkOf(Results[1])) = 0 /\ Results[1].score = One
    /\ Distance(call.query, ChunkOf(Results[2])) = 1 /\ Results[2].score = Half

\* what the store returns for the query of the call
Candidates == CollectionQuery(collection, call.query, call.top_k, call.language_filter)

\* the hit is removed by min_score or by file_filter
Removed(h) ==
    \/ RLt(Rat(1, 1 + h.distance), call.min_score)
    \/ /\ call.file_filter # <<>>
       /\ ~Contains(LowerStr(call.file_filter),
                    LowerStr(Get(h.entry.metadata, "file_path", <<>>)))

\* C16: every call of search() returns a SearchResponse; when the store
\* returns no document, or min_score and file_filter remove every candidate,
\* it has no results and total_results = 0.
C16_NoMatchReturnsEmpty ==
    /\ pc \in {"idle", "returned"}
    /\ Returned("search") =>
          /\ DOMAIN ret = {"query", "results", "total_results"}
          /\ (\A h \in Range(Candidates) : Removed(h)) =>
                (ret.results = <<>> /\ ret.total_results = 0)

C16_Witness ==
    /\ Returned("search")
    /\ \E h \in Range(Candidates) : RLt(Rat(1, 1 + h.distance), call.min_score)
    /\ \E h \in Range(Candidates) : ~RLt(Rat(1, 1 + h.distance), call.min_score)
    /\ \A h \in Range(Candidates) : Removed(h)
    /\ ret.total_results = 0

\* the step is the return, or the failure, of the constructor
Constructed == pc = "new" /\ pc' # "new"

TellsToIndex(exception) ==
    /\ exception.error = "FileNotFoundError"
    /\ exception.message[Len(exception.message)] = "Run 'ai-assist index' first."

\* C17: constructing a CodebaseSearch fails with a FileNotFoundError that
\* says the index, or the collection, was not found and tells the caller to
\* run 'ai-assist index' first exactly when the persist directory or the
\* collection is missing; a session, and so a call of it, exists only on an
\* index that has been created.
C17_IndexNotFound ==
    /\ [](pc = "failed" => TellsToIndex(ret))
    /\ [](pc \in {"idle", "returned"} => persist = "indexed")
    /\ [][Constructed =>
            /\ persist = "no directory" =>
                  (pc' = "failed" /\ ret'.message[1] = "Index not found at ")
            /\ persist = "no collection" =>
                  (pc' = "failed" /\ ret'.message[1] = "Collection '")
            /\ persist = "indexed" => pc' = "idle"]_vars

C17_Witness ==
    /\ pc = "failed" /\ call.op = "__init__"
    /\ persist = "no collection"
    /\ ret = CollectionNotFound

\* the stored metadata of the entry a result carries the content of
StoredMeta(r) ==
    ChunkTable[CHOOSE c \in collection : ChunkTable[c].document = r.content].metadata

\* field of the result is the stored value, or `default` when the metadata
\* has no such field
StoredOr(r, field, default) ==
    r[field] = IF field \in DOMAIN StoredMeta(r) THEN StoredMeta(r)[field] ELSE default

ReturnsResults ==
    Returned("search") \/ Returned("hybrid_search") \/ Returned("get_file_context")

\* C18 as stated: in every result of search, hybrid_search and
\* get_file_context a numeric field the stored metadata lacks is 0 and a
\* string field it lacks (file_path, chunk_type, name, language) is the empty
\* string.
C18_MissingFieldsEmpty ==
    ReturnsResults =>
        \A r \in Range(Results) :
            /\ StoredOr(r, "start_line", 0) /\ StoredOr(r, "end_line", 0)
            /\ StoredOr(r, "file_path", <<>>) /\ StoredOr(r, "chunk_type", "")
            /\ StoredOr(r, "name", "") /\ StoredOr(r, "language", "")

\* C18: in every result of search, hybrid_search and get_file_context a
\* field the stored metadata lacks is 0 for start_line and end_line, the
\* empty string for file_path, name and language, and "unknown" for
\* chunk_type.
C18_MissingFieldsDefault ==
    ReturnsResults =>
        \A r \in Range(Results) :
            /\ StoredOr(r, "start_line", 0) /\ StoredOr(r, "end_line", 0)
            /\ StoredOr(r, "file_path", <<>>) /\ StoredOr(r, "chunk_type", "unknown")
            /\ StoredOr(r, "name", "") /\ StoredOr(r, "language", "")

C18_Witness ==
    /\ FusedCall /\ Len(Results) = 2
    /\ \E r \in Range(Results) :
          /\ r.content = ChunkTable[5].document
          /\ ResultKey(r) \notin KeysOf(trace.semantic)
          /\ r.chunk_type = "unknown" /\ r.end_line = 0 /\ r.name = ""
    /\ \E r \in Range(Results) :
          /\ r.content = ChunkTable[6].document
          /\ r.file_path = <<>> /\ r.start_line = 0 /\ r.language = "python"

\* the ids of the entries the keyword index was built from
IndexedIds == {_bm25_documents[i].id : i \in 1..Len(_bm25_documents)}

\* C19: on one instance, whatever calls are made and whatever the store
\* holds at each of them, the embedder is constructed at most once, the
\* keyword index is built at most once and the re-ranker is constructed at
\* most once.
C19_LoadedAtMostOnce ==
    /\ loads.embedder <= 1
    /\ loads.bm25 <= 1
    /\ loads.reranker <= 1

C19_Witness ==
    /\ Returned("hybrid_search") /\ call.rerank
    /\ loads = [embedder |-> 1, bm25 |-> 1, reranker |-> 1]
    /\ collection # {}
    /\ IndexedIds # collection

\* the step is a call of op on the instance
Calls(op) == pc = "idle" /\ pc' = "returned" /\ call'.op = op

\* the step stays with one instance
SameInstance == pc # "new" /\ pc' # "new"

\* C20: every dependency is not loaded right after construction; on one
\* instance a loaded dependency stays as it is; the embedder is loaded only by
\* search and hybrid_search, the keyword index only by hybrid_search and
\* _bm25_search, the re-ranker only by _rerank and by hybrid_search with
\* rerank on; search() loads the embedder and nothing else.
C20_LazyLoading ==
    [][/\ Constructed =>
            (_embedder' = "None" /\ _bm25_index' = <<>> /\ _reranker' = "None")
       /\ SameInstance =>
            /\ _embedder # "None" => _embedder' = _embedder
            /\ _bm25_index # <<>> => _bm25_index' = _bm25_index
            /\ _reranker # "None" => _reranker' = _reranker
            /\ _embedder' # _embedder => (Calls("search") \/ Calls("hybrid_search"))
            /\ _bm25_index' # _bm25_index =>
                  (Calls("hybrid_search") \/ Calls("_bm25_search"))
            /\ _reranker' # _reranker =>
                  (Calls("_rerank") \/ (Calls("hybrid_search") /\ call'.rerank))
       /\ Calls("search") =>
            (_embedder' # "None" /\ UNCHANGED <<_bm25_index, _bm25_documents, _reranker>>)
      ]_vars

C20_Witness ==
    /\ Returned("search")
    /\ BM25_AVAILABLE /\ RERANK_AVAILABLE /\ collection # {}
    /\ loads = [embedder |-> 1, bm25 |-> 0, reranker |-> 0]
    /\ _embedder = "SentenceTransformer" /\ _bm25_index = <<>> /\ _reranker = "None"

\* the step builds the keyword index of the instance
BuildsIndex == SameInstance /\ _bm25_index = <<>> /\ _bm25_index' # <<>>

\* what _bm25_search returns for the call when it scores the given snapshot
ScoredOn(index, docs) ==
    _bm25_search(BM25_AVAILABLE, index, docs, QueryTexts[call.query], call.top_k,
                 call.file_filter, call.language_filter)

\* C21: once an instance has built its keyword index, the documents and
\* metadata _bm25_search scores are those the store held at build time,
\* whatever an indexer adds to, overwrites in or removes from the store
\* afterwards, until the instance is discarded.
C21_KeywordIndexSnapshot ==
    /\ [][/\ BuildsIndex =>
                /\ _bm25_documents' = CollectionGet(collection)
                /\ _bm25_index' = BM25Okapi(CollectionGet(collection))
          /\ (SameInstance /\ _bm25_index # <<>>) =>
                UNCHANGED <<_bm25_index, _bm25_documents>>]_vars
    /\ []((Returned("_bm25_search") /\ _bm25_index # <<>>) =>
              Results = ScoredOn(_bm25_index, _bm25_documents))

C21_Witness ==
    /\ Returned("_bm25_search")
    /\ collection = {2, 3, 7}
    /\ IndexedIds = {1, 2, 3}
    /\ _bm25_documents # CollectionGet(collection)
    /\ \E r \in Range(Results) : r.document = ChunkTable[1].document
    /\ Results # ScoredOn(BM25Okapi(CollectionGet(collection)), CollectionGet(collection))

\* _tokenize(text) returned
Tokenized(text) == Returned("_tokenize") /\ call.text = text

\* C22: _tokenize("processUserRequest") is exactly [process, user, request],
\* _tokenize("process_snake_case") is exactly [process, snake, case], and
\* _tokenize("handleAuthenticationError AUTH_001") contains handle,
\* authentication, error, auth and 001.
C22_TokenizeExamples ==
    /\ Tokenized(ProcessUserRequest) =>
          Results = <<<<"p", "r", "o", "c", "e", "s", "s">>, <<"u", "s", "e", "r">>, <<"r", "e", "q", "u", "e", "s", "t">>>>
    /\ Tokenized(ProcessSnakeCase) =>
          Results = <<<<"p", "r", "o", "c", "e", "s", "s">>, <<"s", "n", "a", "k", "e">>, <<"c", "a", "s", "e">>>>
    /\ Tokenized(HandleAuthenticationError) =>
          {<<"h", "a", "n", "d", "l", "e">>,
           <<"a", "u", "t", "h", "e", "n", "t", "i", "c", "a", "t", "i", "o", "n">>,
           <<"e", "r", "r", "o", "r">>,
           <<"a", "u", "t", "h">>,
           <<"0", "0", "1">>} \subseteq Range(Results)

C22_Witness ==
    /\ Tokenized(HandleAuthenticationError)
    /\ Results = <<<<"h", "a", "n", "d", "l", "e">>,
                 <<"a", "u", "t", "h", "e", "n", "t", "i", "c", "a", "t", "i", "o", "n">>,
                 <<"e", "r", "r", "o", "r">>,
                 <<"a", "u", "t", "h">>,
                 <<"0", "0", "1">>>>

\* a piece left after splitting on `_`: letters and digits only
IsSegment(text) ==
    text # <<>> /\ \A i \in 1..Len(text) : IsAlpha(text[i]) \/ IsDigit(text[i])

\* the reference rules put a token boundary between seg[i] and seg[i + 1]:
\* where a lowercase run, a digit run or an acronym run ends, and before the
\* uppercase letter that starts a word
SegmentBoundary(seg, i) ==
    LET c == seg[i]
        d == seg[i + 1]
    IN  \/ IsLower(c) /\ ~IsLower(d)
        \/ IsDigit(c) /\ ~IsDigit(d)
        \/ IsUpper(c) /\ IsDigit(d)
        \/ IsUpper(c) /\ IsUpper(d) /\ i + 2 <= Len(seg) /\ IsLower(seg[i + 2])

SegmentCuts(seg) == {0, Len(seg)} \cup {i \in 1..(Len(seg) - 1) : SegmentBoundary(seg, i)}

\* the tokens of a segment by the reference rules
ReferenceTokens(seg) ==
    LET cuts == SegmentCuts(seg)
        cut(k) == CHOOSE c \in cuts : Cardinality({d \in cuts : d < c}) = k
    IN  IF \A i \in 1..Len(seg) : IsUpper(seg[i]) THEN <<LowerStr(seg)>>
        ELSE [k \in 1..(Cardinality(cuts) - 1) |->
                 LowerStr(SubSeq(seg, cut(k - 1) + 1, cut(k)))]

\* C23: for every identifier segment over uppercase letters, lowercase
\* letters and digits, _tokenize returns the tokens of the reference rules:
\* one lowercased token for a segment made entirely of uppercase letters,
\* otherwise its maximal lowercase runs, acronym runs, uppercase-letter-plus-
\* lowercase words and digit runs, lowercased, in order.
C23_AgreesWithReferenceRules ==
    (Returned("_tokenize") /\ IsSegment(call.text)) =>
        Results = ReferenceTokens(call.text)

\* the tokens written one after the other
RECURSIVE Concatenated(_)
Concatenated(tokens) ==
    IF tokens = <<>> THEN <<>> ELSE Head(tokens) \o Concatenated(Tail(tokens))

IsAlnum(c) == IsAlpha(c) \/ IsDigit(c)

\* the letters and digits of the text, in order
Alphanumerics(text) == SelectSeq(text, IsAlnum)

\* C30: every token _tokenize returns is non-empty and holds only lowercase
\* letters and digits, and the tokens concatenated in order are the input
\* lowercased with every character that is not a letter or a digit removed.
C30_TokensPartitionInput ==
    Returned("_tokenize") =>
        /\ \A t \in Range(Results) :
              t # <<>> /\ \A i \in 1..Len(t) : IsLower(t[i]) \/ IsDigit(t[i])
        /\ Concatenated(Results) = LowerStr(Alphanumerics(call.text))

C30_Witness ==
    /\ Tokenized(<<"C", "_", "D", "1">>)
    /\ Results = <<<<"c">>, <<"d", "1">>>>
    /\ Concatenated(Results) = <<"c", "d", "1">>

\* the pools hybrid_search fuses, as the store, the keyword-index snapshot,
\* the query and the parameters of the call give them
PoolsOfCall ==
    LET fetch_k == FetchK(call.top_k, call.rerank, call.rerank_top_k)
    IN  [semantic |-> search(collection, call.query, fetch_k, Zero,
                             call.file_filter, call.language_filter),
         bm25 |-> _bm25_search(BM25_AVAILABLE, _bm25_index, _bm25_documents,
                               QueryTexts[call.query], fetch_k,
                               call.file_filter, call.language_filter)]

\* the lists hybrid_search can return for these pools, one for each order in
\* which the set all_keys can be iterated
FusionOutcomes(pools) ==
    {Take(SortDesc(order), call.top_k) :
        order \in Perms(Fused(pools.semantic, pools.bm25, call.alpha, call.min_score))}

\* C24: score fusion is deterministic: the store contents, the keyword-index
\* snapshot, the query and the parameters leave one list that hybrid_search
\* (without re-ranking) can return, the order of results with equal scores
\* and the results that survive the cut to top_k included; any two such calls
\* return that list.
C24_FusionDeterministic ==
    (FusedCall /\ ~RerankApplied) =>
        /\ Results \in FusionOutcomes(PoolsOfCall)
        /\ \A other \in FusionOutcomes(PoolsOfCall) : other = Results

\* the setting analytics.enabled is off
AnalyticsDisabled == settings["analytics.enabled"] = "False"

TrackingCalls ==
    {"track_command", "track_llm_call", "track_feature", "track_error", "track_event",
     "enter track_command_context", "exit track_command_context"}

ReadCalls == {"get_usage_today", "get_daily_stats", "get_summary"}

\* C25: while analytics is disabled, a call of track_command,
\* track_llm_call, track_feature, track_error, track_command_context or
\* track_event inserts no event and no token-usage record and does not
\* create the analytics storage or its database, and get_usage_today,
\* get_daily_stats and get_summary return their empty defaults without
\* touching the storage.
C25_DisabledNoSideEffects ==
    [][AnalyticsDisabled =>
          /\ done'.op \in TrackingCalls \cup ReadCalls =>
                UNCHANGED <<_storage, analytics_db, usage_events, token_usage>>
          /\ done'.op = "get_usage_today" =>
                done'.value = [commands_today |-> 0, llm_calls_today |-> 0]
          /\ done'.op = "get_daily_stats" => done'.value = <<>>
          /\ done'.op = "get_summary" => done'.value = [analytics_enabled |-> FALSE]
      ]_vars

C25_Witness ==
    /\ AnalyticsDisabled
    /\ settings["telemetry.share_error_reports"] = "True"
    /\ done.op = "exit track_command_context" /\ done.value = "raised"
    /\ _storage = "None" /\ analytics_db = "absent"
    /\ usage_events = <<>> /\ token_usage = <<>>

\* the tokens of the query of the call
QueryTokens == _tokenize(QueryTexts[call.query])

\* the BM25 score of each document of the keyword index for the query
IndexScores == GetScores(_bm25_index, QueryTokens)

\* the (document, metadata, score) tuple of the i-th indexed document
Hit(i) ==
    [document |-> _bm25_documents[i].document, meta |-> _bm25_documents[i].metadata,
     score |-> IndexScores[i]]

\* the i-th indexed document satisfies the filters of the call
PassesFilters(i) ==
    LET meta == _bm25_documents[i].metadata
    IN  /\ call.file_filter # <<>> =>
              Contains(LowerStr(call.file_filter), LowerStr(Get(meta, "file_path", <<>>)))
        /\ call.language_filter # "" => Get(meta, "language", "") = call.language_filter

\* the indexed documents with a positive score that satisfy the filters
Qualifying ==
    {i \in 1..Len(_bm25_documents) : RLt(Zero, IndexScores[i]) /\ PassesFilters(i)}

\* C26: _bm25_search returns only documents with a strictly positive BM25
\* score that satisfy file_filter and language_filter, each once, in
\* descending order of score; they are the top_k highest-scoring of all such
\* documents (all of them when there are fewer); it returns [] when the
\* query yields no tokens or the keyword index is not available.
C26_Bm25TopK ==
    Returned("_bm25_search") =>
        IF ~BM25_AVAILABLE \/ _bm25_index = <<>> \/ QueryTokens = <<>>
        THEN Results = <<>>
        ELSE /\ Range(Results) \subseteq {Hit(i) : i \in Qualifying}
             /\ Len(Results) = Min2(call.top_k, Cardinality(Qualifying))
             /\ Cardinality(Range(Results)) = Len(Results)
             /\ Descending(Results)
             /\ \A i \in Qualifying :
                   Hit(i) \notin Range(Results) =>
                       \A r \in Range(Results) : RLe(IndexScores[i], r.score)

C26_Witness ==
    /\ Returned("_bm25_search")
    /\ call.top_k = 1 /\ call.language_filter = "python"
    /\ Len(Results) = 1
    /\ \E i \in 1..Len(_bm25_documents) :
          ~PassesFilters(i) /\ RLt(Results[1].score, IndexScores[i])

\* the chunk of r is in the semantic pool and among the keyword hits
FoundByBoth(r) ==
    /\ ResultKey(r) \in KeysOf(trace.semantic)
    /\ ResultKey(r) \in {MetaKey(h.meta) : h \in Range(trace.bm25)}

\* how many entries of the list have the key of r
Occurrences(list, r) ==
    Cardinality({i \in 1..Len(list) : ResultKey(list[i]) = ResultKey(r)})

HitsOf(r) == {h \in Range(trace.bm25) : MetaKey(h.meta) = ResultKey(r)}

\* the largest raw BM25 score among the keyword hits fetched for the call
LargestRaw ==
    (CHOOSE h \in Range(trace.bm25) : \A g \in Range(trace.bm25) : RLe(g.score, h.score)).score

\* C28: in hybrid_search the keyword_score of a chunk with a keyword hit is
\* its raw BM25 score divided by the largest raw BM25 score among the keyword
\* hits fetched for the query, so it is in (0, 1]; a chunk without a keyword
\* hit has keyword_score = 0.  This holds for the fused entries and for the
\* results, re-ranked or not.
C28_KeywordScoreNormalized ==
    FusedCall =>
        \A r \in Range(trace.fused) \cup Range(Results) :
            IF HitsOf(r) = {} THEN r.keyword_score = Zero
            ELSE /\ \A h \in HitsOf(r) : RMul(r.keyword_score, LargestRaw) = h.score
                 /\ RLt(Zero, r.keyword_score) /\ RLe(r.keyword_score, One)

C28_Witness ==
    /\ FusedCall /\ Len(trace.bm25) = 2
    /\ RLt(One, LargestRaw)
    /\ \E r \in Range(Results) : r.keyword_score = One
    /\ \E r \in Range(Results) : RLt(Zero, r.keyword_score) /\ RLt(r.keyword_score, One)
    /\ \E r \in Range(trace.fused) : HitsOf(r) = {} /\ r.keyword_score = Zero

\* the stored chunks that match the filters of the call
Matching ==
    {c \in collection :
        /\ FileFilterPasses(call.file_filter, Get(ChunkTable[c].metadata, "file_path", <<>>))
        /\ call.language_filter # "" =>
              Get(ChunkTable[c].metadata, "language", "") = call.language_filter}

\* the stored chunks the results were built from
ReturnedChunks == {c \in collection : \E r \in Range(Results) : BuiltFrom(r, c)}

\* C29: search(query, top_k = k, file_filter = f) with min_score = 0 returns
\* the k most similar of the chunks whose file_path matches f: when at least
\* k stored chunks match, it returns exactly k results, all matching, and no
\* matching chunk left out is closer to the query than a returned one.
C29_TopKAmongMatching ==
    (/\ Returned("search") /\ call.min_score = Zero /\ call.file_filter # <<>>
     /\ Cardinality(Matching) >= call.top_k) =>
        /\ Len(Results) = call.top_k
        /\ ReturnedChunks \subseteq Matching
        /\ \A c \in Matching \ ReturnedChunks, d \in ReturnedChunks :
              Distance(call.query, d) <= Distance(call.query, c)

====
